---- MODULE Spec2Model ----
(***************************************************************************)
(* ApolloServer.createHandler of apollo-server-lambda (src/unnamed/part_000)*)
(* together with the execution bridge graphqlLambda (src/unnamed/part_001). *)
(*                                                                         *)
(* Strings are sequences of chunks (a chunk is an indivisible piece of     *)
(* text), so join, toString, includes and startsWith are computed and not  *)
(* assumed.  A value that may be null/undefined is a record with a `some`  *)
(* flag.  A Headers object or a headers object literal is a function from  *)
(* the names it holds to their values.                                     *)
(***************************************************************************)
EXTENDS Integers, Sequences, FiniteSets

VARIABLES
  playgroundOptions,  \* this.playgroundOptions of the server
  processFileUploads, \* typeof processFileUploads, as apollo-server-core exports it
  handlers,           \* closure state of each handler createHandler returned
  willStartCalls,     \* number of this.willStart() calls made so far
  inv,                \* the invocations of the handlers
  legacy              \* the invocation of the callback-style graphqlLambda handler

vars == <<playgroundOptions, processFileUploads, handlers, willStartCalls, inv, legacy>>

---------------------------------------------------------------------------
(* JavaScript values *)

Null == [some |-> FALSE, s |-> <<>>]

Str(s) == [some |-> TRUE, s |-> s]

\* JavaScript truthiness of a string-or-null value: '' and null are falsy
Truthy(v) == v.some /\ v.s # <<>>

\* x || y on string-or-null values
OrElse(x, y) == IF Truthy(x) THEN x ELSE y

Undef == [t |-> "undef"]

OptStr(s) == [t |-> "str", s |-> s]

OptList(l) == [t |-> "list", l |-> l]

OptBool(b) == [t |-> "bool", b |-> b]

OptNum(n) == [t |-> "num", n |-> n]

\* JavaScript truthiness of an option value
TruthyOpt(o) ==
  CASE o.t = "undef" -> FALSE
    [] o.t = "bool" -> o.b
    [] o.t = "str" -> o.s # <<>>
    [] o.t = "list" -> TRUE
    [] o.t = "num" -> o.n # 0
    [] o.t = "obj" -> TRUE

RECURSIVE Join(_, _)
\* Array.prototype.join
Join(l, sep) ==
  IF l = <<>> THEN <<>>
  ELSE IF Len(l) = 1 THEN l[1]
  ELSE l[1] \o sep \o Join(Tail(l), sep)

Digit(d) ==
  CASE d = 0 -> "0" [] d = 1 -> "1" [] d = 2 -> "2" [] d = 3 -> "3"
    [] d = 4 -> "4" [] d = 5 -> "5" [] d = 6 -> "6" [] d = 7 -> "7"
    [] d = 8 -> "8" [] d = 9 -> "9"

RECURSIVE NumberToString(_)
\* Number.prototype.toString of a natural number
NumberToString(n) ==
  IF n < 10 THEN <<Digit(n)>> ELSE NumberToString(n \div 10) \o <<Digit(n % 10)>>

\* String.prototype.startsWith
StartsWith(s, p) == Len(s) >= Len(p) /\ SubSeq(s, 1, Len(p)) = p

\* String.prototype.includes
Includes(s, p) == \E i \in 1..(Len(s) + 1) : i + Len(p) - 1 <= Len(s) /\ SubSeq(s, i, i + Len(p) - 1) = p

\* Array.prototype.includes
ArrayIncludes(l, x) == \E i \in 1..Len(l) : l[i] = x

---------------------------------------------------------------------------
(* Headers (apollo-server-env): names are case-insensitive *)

\* the lower-case form of a header name
Lower(n) ==
  CASE n \in {"Origin", "origin", "ORIGIN"} -> "origin"
    [] n \in {"Accept", "accept", "ACCEPT"} -> "accept"
    [] n \in {"Content-Type", "content-type"} -> "content-type"
    [] n \in {"Access-Control-Request-Headers", "access-control-request-headers"} -> "access-control-request-headers"
    [] OTHER -> n

EmptyHeaders == [k \in {} |-> <<>>]

RECURSIVE Appended(_, _)
\* the values of the raw names ns, appended one after the other with ', '
Appended(raw, ns) ==
  LET n == CHOOSE x \in ns : TRUE
  IN IF ns = {n} THEN raw[n] ELSE raw[n] \o <<", ">> \o Appended(raw, ns \ {n})

\* new Headers(init): every entry of the raw mapping is appended under its
\* lower-case name
NewHeaders(raw) ==
  [k \in {Lower(n) : n \in DOMAIN raw} |-> Appended(raw, {n \in DOMAIN raw : Lower(n) = k})]

\* Headers.prototype.get: the value, or null
Get(h, n) == IF Lower(n) \in DOMAIN h THEN Str(h[Lower(n)]) ELSE Null

\* Headers.prototype.set
Set(h, n, v) == [k \in DOMAIN h \cup {Lower(n)} |-> IF k = Lower(n) THEN v ELSE h[k]]

\* {...a, ...b}: the keys of both, b's value where both define a key
Spread(a, b) == [k \in DOMAIN a \cup DOMAIN b |-> IF k \in DOMAIN b THEN b[k] ELSE a[k]]

\* obj[key] of a raw mapping: the value, or undefined
Prop(raw, key) == IF key \in DOMAIN raw THEN Str(raw[key]) ELSE Null

---------------------------------------------------------------------------
(* Inputs: the options of createHandler, the server's configuration *)

OriginOptions ==
  {Undef, OptBool(TRUE), OptStr(<<"https://fixed">>), OptList(<<<<"https://a">>>>)}

AllowedHeadersOptions == {Undef, OptList(<<<<"x-a">>, <<"x-b">>>>)}

OtherCorsOptions ==
  { [methods |-> Undef, exposedHeaders |-> Undef, credentials |-> Undef, maxAge |-> Undef],
    [methods |-> OptList(<<<<"GET">>, <<"POST">>>>), exposedHeaders |-> OptStr(<<"x-e">>),
     credentials |-> OptBool(TRUE), maxAge |-> OptNum(600)] }

CorsOptions ==
  {Undef} \cup
  { [t |-> "obj", origin |-> o, allowedHeaders |-> a, methods |-> x.methods,
     exposedHeaders |-> x.exposedHeaders, credentials |-> x.credentials, maxAge |-> x.maxAge] :
    o \in OriginOptions, a \in AllowedHeadersOptions, x \in OtherCorsOptions }

\* the async option: true, false, or left out
AsyncOptions == {OptBool(TRUE), OptBool(FALSE), Undef}

\* this.playgroundOptions: undefined, or the render options the server was built with
PlaygroundConfigs ==
  { Undef,
    [t |-> "obj", o |-> [version |-> <<"1.7">>]],
    [t |-> "obj", o |-> [version |-> <<"1.7">>, endpoint |-> <<"/custom">>]] }

---------------------------------------------------------------------------
(* createHandler *)

\* a string option verbatim, an array option joined with commas
StringOrJoined(o) == IF o.t = "str" THEN o.s ELSE Join(o.l, <<",">>)

\* corsHeaders: the CORS headers that do not depend on the request
BaseCorsHeaders(cors) ==
  IF ~TruthyOpt(cors) THEN EmptyHeaders
  ELSE
    LET h1 == IF TruthyOpt(cors.methods)
              THEN Set(EmptyHeaders, "access-control-allow-methods", StringOrJoined(cors.methods))
              ELSE EmptyHeaders
        h2 == IF TruthyOpt(cors.allowedHeaders)
              THEN Set(h1, "access-control-allow-headers", StringOrJoined(cors.allowedHeaders))
              ELSE h1
        h3 == IF TruthyOpt(cors.exposedHeaders)
              THEN Set(h2, "access-control-expose-headers", StringOrJoined(cors.exposedHeaders))
              ELSE h2
        h4 == IF TruthyOpt(cors.credentials)
              THEN Set(h3, "access-control-allow-credentials", <<"true">>)
              ELSE h3
        h5 == IF cors.maxAge.t = "num"
              THEN Set(h4, "access-control-max-age", NumberToString(cors.maxAge.n))
              ELSE h4
    IN h5

\* how a promise settles
Settled(ok) == IF ok THEN "fulfilled" ELSE "rejected"

NoHandler == [created |-> FALSE]

Handlers == {1, 2}

\* createHandler({cors, async}): starts the engine and computes the base headers
CreateHandler(h, cors, async) ==
  /\ ~handlers[h].created
  /\ handlers' = [handlers EXCEPT ![h] =
       [created |-> TRUE, cors |-> cors, async |-> async,
        corsHeaders |-> BaseCorsHeaders(cors), promiseWillStart |-> "pending"]]
  /\ willStartCalls' = [willStartCalls EXCEPT ![h] = @ + 1]
  /\ UNCHANGED <<playgroundOptions, processFileUploads, inv, legacy>>

\* the engine's willStart() settles: it resolves or rejects
WillStartSettles(h, ok) ==
  /\ handlers[h].created
  /\ handlers[h].promiseWillStart = "pending"
  /\ handlers' = [handlers EXCEPT ![h].promiseWillStart = Settled(ok)]
  /\ UNCHANGED <<playgroundOptions, processFileUploads, willStartCalls, inv, legacy>>

---------------------------------------------------------------------------
(* Inputs: the events and contexts the host invokes a handler with *)

One(k, v) == [x \in {k} |-> v]

Event(m, p, rcp, hs, q, b, b64) ==
  [httpMethod |-> m, path |-> p, requestContextPath |-> rcp, headers |-> hs,
   queryStringParameters |-> q, body |-> b, isBase64Encoded |-> b64]

TextHtml == <<"text/html">>

AppJson == <<"application/json">>

Multipart == <<"multipart/form-data", "; boundary=x">>

\* the Origin and Access-Control-Request-Headers headers of a request
CorsRequestHeaders ==
  { EmptyHeaders,
    One("Origin", <<"https://a">>),
    Spread(One("origin", <<"https://b">>), One("Access-Control-Request-Headers", <<"x-c">>)),
    One("access-control-request-headers", <<"x-c">>) }

\* Accept headers that ask for a page, under several spellings of the name
HtmlAcceptHeaders ==
  {One("Accept", TextHtml \o <<",*/*">>), One("accept", TextHtml), One("ACCEPT", TextHtml)}

OtherAcceptHeaders ==
  {EmptyHeaders, One("Accept", AppJson), Spread(One("Accept", AppJson), One("accept", TextHtml))}

ContentTypeHeaders ==
  { EmptyHeaders, One("Content-Type", AppJson \o <<"; charset=utf-8">>),
    One("content-type", Multipart), One("Content-Type", Multipart) }

Paths ==
  { [path |-> Str(<<"/graphql">>), rcp |-> Null],
    [path |-> Str(<<>>), rcp |-> Str(<<"/prod/graphql">>)],
    [path |-> Str(<<>>), rcp |-> Null] }

Bodies == {Null, Str(<<>>), Str(<<"{", "query", "}">>), Str(<<"{">>)}

OptionsEvents ==
  { Event("OPTIONS", Str(<<"/graphql">>), Null, Spread(c, a), Null, Null, FALSE) :
      c \in CorsRequestHeaders, a \in {EmptyHeaders, One("Accept", TextHtml)} }

GetEvents ==
  { Event("GET", p.path, p.rcp, Spread(c, a), Str(<<"{ __typename }">>), Null, FALSE) :
      c \in CorsRequestHeaders, a \in HtmlAcceptHeaders, p \in Paths }
  \cup
  { Event("GET", Str(<<"/graphql">>), Null, Spread(c, a), Str(<<"{ __typename }">>), Null, FALSE) :
      c \in CorsRequestHeaders, a \in OtherAcceptHeaders }

PostEvents ==
  { Event("POST", Str(<<"/graphql">>), Null, Spread(c, t), Null, b, FALSE) :
      c \in CorsRequestHeaders, t \in ContentTypeHeaders, b \in Bodies }

Events == OptionsEvents \cup GetEvents \cup PostEvents

Contexts == { [callbackWaitsForEmptyEventLoop |-> w] : w \in BOOLEAN }

---------------------------------------------------------------------------
(* The handler createHandler returns: its synchronous part *)

\* a variant that reflects the request's origin without looking it up in the list
RequestCorsHeadersAnyOrigin(cors, corsHeaders, eventHeaders) ==
  IF ~(TruthyOpt(cors) /\ TruthyOpt(cors.origin)) THEN corsHeaders
  ELSE
    LET requestOrigin == Get(eventHeaders, "origin")
        h1 == IF cors.origin.t = "str"
              THEN Set(corsHeaders, "access-control-allow-origin", cors.origin.s)
              ELSE IF Truthy(requestOrigin)
              THEN Set(corsHeaders, "access-control-allow-origin", requestOrigin.s)
              ELSE corsHeaders
        requestAccessControlRequestHeaders == Get(eventHeaders, "access-control-request-headers")
    IN IF ~TruthyOpt(cors.allowedHeaders) /\ Truthy(requestAccessControlRequestHeaders)
       THEN Set(h1, "access-control-allow-headers", requestAccessControlRequestHeaders.s)
       ELSE h1

\* the CORS headers of one request: a copy of the base headers, extended
RequestCorsHeaders(cors, corsHeaders, eventHeaders) ==
  IF ~(TruthyOpt(cors) /\ TruthyOpt(cors.origin)) THEN corsHeaders
  ELSE
    LET requestOrigin == Get(eventHeaders, "origin")
        h1 == IF cors.origin.t = "str"
              THEN Set(corsHeaders, "access-control-allow-origin", cors.origin.s)
              ELSE IF Truthy(requestOrigin)
                      /\ (cors.origin.t = "bool"
                          \/ (cors.origin.t = "list" /\ ArrayIncludes(cors.origin.l, requestOrigin.s)))
              THEN Set(corsHeaders, "access-control-allow-origin", requestOrigin.s)
              ELSE corsHeaders
        requestAccessControlRequestHeaders == Get(eventHeaders, "access-control-request-headers")
    IN IF ~TruthyOpt(cors.allowedHeaders) /\ Truthy(requestAccessControlRequestHeaders)
       THEN Set(h1, "access-control-allow-headers", requestAccessControlRequestHeaders.s)
       ELSE h1

\* Array.from(headers).reduce(...): an object with an entry per header
HeadersObject(h) == [k \in DOMAIN h |-> h[k]]

NoResponse == [some |-> FALSE]

Response(status, body, headers) ==
  [some |-> TRUE, statusCode |-> status, body |-> body, headers |-> headers]

\* a headers object that is there, and the undefined one
Defined(h) == [def |-> TRUE, h |-> h]

Undefined == [def |-> FALSE, h |-> EmptyHeaders]

\* a variant that answers a preflight with 200 and the page content type
OptionsResultOk(requestCorsHeadersObject) ==
  Response(200, <<>>, Defined(Spread(One("Content-Type", TextHtml), requestCorsHeadersObject)))

\* the result of the OPTIONS branch
OptionsResult(requestCorsHeadersObject) ==
  Response(204, <<>>, Defined(Spread(EmptyHeaders, requestCorsHeadersObject)))

\* event.headers['Accept'] || event.headers['accept']
AcceptHeader(event) == OrElse(Prop(event.headers, "Accept"), Prop(event.headers, "accept"))

\* whether the request is answered with the playground page
IsPlaygroundRequest(event) ==
  /\ TruthyOpt(playgroundOptions)
  /\ event.httpMethod = "GET"
  /\ Truthy(AcceptHeader(event))
  /\ Includes(AcceptHeader(event).s, TextHtml)

\* a variant in which the request's path replaces a configured endpoint
PlaygroundRenderPageOptionsPathLast(event) ==
  LET path == OrElse(OrElse(event.path, event.requestContextPath), Str(<<"/">>))
  IN Spread(playgroundOptions.o, One("endpoint", path.s))

\* {endpoint: path, ...this.playgroundOptions}
PlaygroundRenderPageOptions(event) ==
  LET path == OrElse(OrElse(event.path, event.requestContextPath), Str(<<"/">>))
  IN Spread(One("endpoint", path.s), playgroundOptions.o)

\* renderPlaygroundPage: the page, which embeds the options it was given
RenderPlaygroundPage(options) ==
  <<"<html>", "endpoint=">> \o options["endpoint"] \o <<"version=">> \o options["version"]

\* the result of the playground branch
PlaygroundResult(event, requestCorsHeadersObject) ==
  Response(200, RenderPlaygroundPage(PlaygroundRenderPageOptions(event)),
           Defined(Spread(One("Content-Type", TextHtml), requestCorsHeadersObject)))

---------------------------------------------------------------------------
(* Invocations *)

Invocations == {1, 2}

NoEvent == [none |-> TRUE]

NoPromise == [state |-> "none", value |-> NoResponse, error |-> "none"]

Pending == [state |-> "pending", value |-> NoResponse, error |-> "none"]

\* Promise.resolve(value), or an async function returning value
Fulfilled(value) == [state |-> "fulfilled", value |-> value, error |-> "none"]

\* an async function throwing error
Rejected(error) == [state |-> "rejected", value |-> NoResponse, error |-> error]

NoOutcome == [kind |-> "none", statusCode |-> 0, body |-> <<>>, headers |-> Undefined]

NoneSeen == [willStart |-> "none", upload |-> "none", options |-> "none", query |-> NoOutcome]

Idle ==
  [pc |-> "idle", h |-> 0, event |-> NoEvent, event0 |-> NoEvent,
   context |-> [callbackWaitsForEmptyEventLoop |-> TRUE],
   context0 |-> [callbackWaitsForEmptyEventLoop |-> TRUE],
   requestCorsHeadersObject |-> EmptyHeaders,
   resultPromise |-> NoPromise,   \* the promise the handler builds or returns
   returned |-> "none",           \* what the handler returned to the host
   observed |-> NoPromise,        \* the settlement the host saw of a returned promise
   callbackCalls |-> <<>>,        \* the calls of the completion callback
   calls |-> <<>>,                \* the engine operations performed, in order
   rendered |-> Null,             \* the endpoint given to the page renderer
   bridgeResult |-> NoResponse,   \* what graphqlLambda's handler returned
   query |-> [kind |-> "none", v |-> Null],  \* the query given to runHttpQuery
   seen |-> NoneSeen]             \* how the engine's operations settled for this invocation

IsAsync(h) == TruthyOpt(handlers[h].async)

\* a variant whose error handler passes no error on
CallbackCallWithoutError(error, result, context) ==
  [error |-> "none", result |-> result, context |-> context]

\* callback(error, result), with the context as it is at the call
CallbackCall(error, result, context) ==
  [error |-> error, result |-> result, context |-> context]

\* a variant in which requestCorsHeaders is corsHeaders itself, not a copy
CorsHeadersShared(corsHeaders, requestCorsHeaders) == requestCorsHeaders

\* requestCorsHeaders = new Headers(corsHeaders) is a copy: what the handler
\* sets on it leaves the handler's corsHeaders as they were
CorsHeadersCopied(corsHeaders, requestCorsHeaders) == corsHeaders

\* a variant in which each request of the primary path calls willStart()
WillStartCalledAgain(calls, h) == [calls EXCEPT ![h] = @ + 1]

\* promiseWillStart.then(...): the request awaits the promise createHandler
\* made, it does not call willStart()
WillStartAwaited(calls, h) == calls

\* a variant that sets the flag in either mode
PrimaryPathContextNotWaiting(h, context) == [callbackWaitsForEmptyEventLoop |-> FALSE]

\* if (!async) context.callbackWaitsForEmptyEventLoop = false
PrimaryPathContext(h, context) ==
  IF IsAsync(h) THEN context ELSE [callbackWaitsForEmptyEventLoop |-> FALSE]

\* the handler's code up to the first point where it waits
Invoke(r, h, event, context) ==
  /\ inv[r].pc = "idle"
  /\ handlers[h].created
  /\ LET cors == handlers[h].cors
         eventHeaders == NewHeaders(event.headers)
         requestCorsHeaders == RequestCorsHeaders(cors, handlers[h].corsHeaders, eventHeaders)
         requestCorsHeadersObject == HeadersObject(requestCorsHeaders)
         start == [Idle EXCEPT !.h = h, !.event = event, !.event0 = event,
                               !.context = context, !.context0 = context,
                               !.requestCorsHeadersObject = requestCorsHeadersObject]
         notWaiting == [callbackWaitsForEmptyEventLoop |-> FALSE]
     IN
       /\ handlers' = [handlers EXCEPT ![h].corsHeaders = CorsHeadersCopied(@, requestCorsHeaders)]
       /\ IF event.httpMethod = "OPTIONS" THEN
            LET result == OptionsResult(requestCorsHeadersObject)
            IN IF IsAsync(h)
               THEN inv' = [inv EXCEPT ![r] =
                      [start EXCEPT !.pc = "settled", !.resultPromise = Fulfilled(result),
                                    !.returned = "promise"]]
               ELSE inv' = [inv EXCEPT ![r] =
                      [start EXCEPT !.pc = "done", !.context = notWaiting,
                                    !.callbackCalls = <<CallbackCall("none", result, notWaiting)>>,
                                    !.returned = "undefined"]]
          ELSE IF IsPlaygroundRequest(event) THEN
            LET result == PlaygroundResult(event, requestCorsHeadersObject)
                shown == [start EXCEPT !.rendered = Str(PlaygroundRenderPageOptions(event)["endpoint"])]
            IN IF IsAsync(h)
               THEN inv' = [inv EXCEPT ![r] =
                      [shown EXCEPT !.pc = "settled", !.resultPromise = Fulfilled(result),
                                    !.returned = "promise"]]
               ELSE inv' = [inv EXCEPT ![r] =
                      [shown EXCEPT !.pc = "done",
                                    !.callbackCalls = <<CallbackCall("none", result, context)>>,
                                    !.returned = "undefined"]]
          ELSE
            inv' = [inv EXCEPT ![r] =
              [start EXCEPT !.pc = "awaitStart",
                            !.context = PrimaryPathContext(h, context),
                            !.resultPromise = Pending,
                            !.calls = <<"promiseWillStart.then">>,
                            !.returned = IF IsAsync(h) THEN "promise" ELSE "undefined"]]
  /\ willStartCalls' = IF event.httpMethod = "OPTIONS" \/ IsPlaygroundRequest(event)
                       THEN willStartCalls
                       ELSE WillStartAwaited(willStartCalls, h)
  /\ UNCHANGED <<playgroundOptions, processFileUploads, legacy>>

---------------------------------------------------------------------------
(* The handler's asynchronous part: resultPromise *)

\* a variant that takes any body that is there for an upload
IsFileUploadOfAnyType(event, headers) ==
  /\ processFileUploads = "function"
  /\ event.body # Null

\* handleFileUploads: whether the body goes through processFileUploads
IsFileUpload(event, headers) ==
  /\ processFileUploads = "function"
  /\ event.body # Null
  /\ LET contentType == Get(headers, "content-type")
     IN Truthy(contentType) /\ StartsWith(contentType.s, <<"multipart/form-data">>)

\* createGraphQLServerOptions is called once the event's body is settled
CallCreateGraphQLServerOptions(i) ==
  [i EXCEPT !.pc = "options", !.calls = @ \o <<"createGraphQLServerOptions">>]

\* a variant that runs the continuation without waiting for the promise
WillStartFulfilledOrPending(h) == handlers[h].promiseWillStart \in {"fulfilled", "pending"}

\* promiseWillStart.then(...): the continuation runs once the promise is fulfilled
WillStartFulfilled(h) == handlers[h].promiseWillStart = "fulfilled"

\* promiseWillStart is fulfilled: handleFileUploads runs
WillStartThen(r) ==
  /\ inv[r].pc = "awaitStart"
  /\ WillStartFulfilled(inv[r].h)
  /\ LET i == inv[r]
         eventHeaders == NewHeaders(i.event0.headers)
     IN IF IsFileUpload(i.event, eventHeaders)
        THEN inv' = [inv EXCEPT ![r] =
               [i EXCEPT !.pc = "uploading", !.seen.willStart = "fulfilled",
                         !.event.headers = Spread(@, One("content-type", Get(eventHeaders, "content-type").s)),
                         !.calls = @ \o <<"processFileUploads">>]]
        ELSE inv' = [inv EXCEPT ![r] =
               CallCreateGraphQLServerOptions([i EXCEPT !.seen.willStart = "fulfilled"])]
  /\ UNCHANGED <<playgroundOptions, processFileUploads, handlers, willStartCalls, legacy>>

\* promiseWillStart is rejected: resultPromise is rejected with its error
WillStartRejected(r) ==
  /\ inv[r].pc = "awaitStart"
  /\ handlers[inv[r].h].promiseWillStart = "rejected"
  /\ inv' = [inv EXCEPT ![r].pc = "settled", ![r].seen.willStart = "rejected",
                          ![r].resultPromise = Rejected("willStartError")]
  /\ UNCHANGED <<playgroundOptions, processFileUploads, handlers, willStartCalls, legacy>>

\* what processFileUploads resolves with
ProcessedBody(body) == Str(<<"[uploads]">> \o body.s)

\* a variant that goes on with the body as it was when the processing fails
ProcessFileUploadsSettlesOrSkips(r, ok) ==
  /\ inv[r].pc = "uploading"
  /\ inv' = [inv EXCEPT ![r] =
       CallCreateGraphQLServerOptions(
         [inv[r] EXCEPT !.event.body = IF ok THEN ProcessedBody(@) ELSE @,
                        !.seen.upload = Settled(ok)])]
  /\ UNCHANGED <<playgroundOptions, processFileUploads, handlers, willStartCalls, legacy>>

\* processFileUploads settles: the body is replaced, or the formatted error thrown
ProcessFileUploadsSettles(r, ok) ==
  /\ inv[r].pc = "uploading"
  /\ IF ok
     THEN inv' = [inv EXCEPT ![r] =
            CallCreateGraphQLServerOptions(
              [inv[r] EXCEPT !.event.body = ProcessedBody(@), !.seen.upload = "fulfilled"])]
     ELSE inv' = [inv EXCEPT ![r].pc = "settled", ![r].seen.upload = "rejected",
                             ![r].resultPromise = Rejected("formatApolloErrors([uploadError])")]
  /\ UNCHANGED <<playgroundOptions, processFileUploads, handlers, willStartCalls, legacy>>

---------------------------------------------------------------------------
(* graphqlLambda: the execution bridge *)

\* JSON.parse succeeds on an object text: an opening brace, text, a closing brace
JsonParses(s) == Len(s) >= 2 /\ s[1] = "{" /\ s[Len(s)] = "}"

\* the value JSON.parse returns
JsonParse(s) == Str(SubSeq(s, 2, Len(s) - 1))

IsPostWithBody(event) == event.httpMethod = "POST" /\ Truthy(event.body)

IsJsonPost(event) ==
  /\ IsPostWithBody(event)
  /\ LET contentType == Get(NewHeaders(event.headers), "content-type")
     IN Truthy(contentType) /\ StartsWith(contentType.s, AppJson)

\* a variant that lets an empty body through to the engine
EarlyResultNullOnly(event) ==
  IF event.httpMethod = "POST" /\ event.body = Null
  THEN Response(500, <<"POST body missing.">>, Undefined)
  ELSE IF IsJsonPost(event) /\ ~JsonParses(event.body.s)
  THEN Response(415, <<"Error parsing JSON POST body">>, Undefined)
  ELSE NoResponse

\* the response graphqlHandler returns before it calls the engine, if it does
EarlyResult(event) ==
  IF event.httpMethod = "POST" /\ ~Truthy(event.body)
  THEN Response(500, <<"POST body missing.">>, Undefined)
  ELSE IF IsJsonPost(event) /\ ~JsonParses(event.body.s)
  THEN Response(415, <<"Error parsing JSON POST body">>, Undefined)
  ELSE NoResponse

\* the query graphqlHandler hands to runHttpQuery
Query(event) ==
  IF IsJsonPost(event) THEN [kind |-> "parsed", v |-> JsonParse(event.body.s)]
  ELSE IF IsPostWithBody(event) THEN [kind |-> "body", v |-> event.body]
  ELSE [kind |-> "queryStringParameters", v |-> event.queryStringParameters]

\* what runHttpQuery settles with: a response, an HttpQueryError, another error
EngineOutcomes ==
  { [kind |-> "response", statusCode |-> 200, body |-> <<"{data}">>,
     headers |-> Defined(One("Content-Type", AppJson))],
    [kind |-> "response", statusCode |-> 200, body |-> <<"{data}">>,
     headers |-> Defined(Spread(One("Content-Type", AppJson),
                                One("access-control-allow-origin", <<"https://engine">>)))],
    [kind |-> "HttpQueryError", statusCode |-> 400, body |-> <<"Must provide query string.">>,
     headers |-> Undefined],
    [kind |-> "HttpQueryError", statusCode |-> 405, body |-> <<"Apollo Server supports only GET/POST requests.">>,
     headers |-> Defined(Spread(One("Allow", <<"GET, POST">>),
                                One("access-control-allow-headers", <<"x-engine">>)))],
    [kind |-> "error", statusCode |-> 0, body |-> <<>>, headers |-> Undefined] }

\* a variant that answers every settled query with status 200
BridgeResultAlwaysOk(outcome) == Response(200, outcome.body, outcome.headers)

\* the response graphqlHandler returns for a settled runHttpQuery
BridgeResult(outcome) ==
  IF outcome.kind = "response"
  THEN Response(200, outcome.body, outcome.headers)
  ELSE Response(outcome.statusCode, outcome.body, outcome.headers)

\* a variant that spreads the engine's headers over the CORS headers
WithCorsHeadersFirst(result, requestCorsHeadersObject) ==
  Response(result.statusCode, result.body,
           Defined(Spread(requestCorsHeadersObject, result.headers.h)))

\* a variant that merges the CORS headers only into a result that has headers
WithCorsHeadersIfAny(result, requestCorsHeadersObject) ==
  IF result.headers.def
  THEN Response(result.statusCode, result.body,
                Defined(Spread(result.headers.h, requestCorsHeadersObject)))
  ELSE result

\* result && {...result, headers: {...result.headers, ...requestCorsHeadersObject}}
WithCorsHeaders(result, requestCorsHeadersObject) ==
  Response(result.statusCode, result.body,
           Defined(Spread(result.headers.h, requestCorsHeadersObject)))

\* resultPromise is fulfilled with the bridge's result and the CORS headers
Resolve(i, result) ==
  [i EXCEPT !.pc = "settled", !.bridgeResult = result,
            !.resultPromise = Fulfilled(WithCorsHeaders(result, i.requestCorsHeadersObject))]

\* createGraphQLServerOptions settles: graphqlLambda(options)(event, context) starts
OptionsSettle(r, ok) ==
  /\ inv[r].pc = "options"
  /\ LET i == [inv[r] EXCEPT !.seen.options = Settled(ok)]
     IN IF ~ok
        THEN inv' = [inv EXCEPT ![r] =
               [i EXCEPT !.pc = "settled", !.resultPromise = Rejected("optionsError")]]
        ELSE IF EarlyResult(i.event) # NoResponse
        THEN inv' = [inv EXCEPT ![r] = Resolve(i, EarlyResult(i.event))]
        ELSE inv' = [inv EXCEPT ![r] =
               [i EXCEPT !.pc = "executing", !.query = Query(i.event),
                         !.calls = @ \o <<"runHttpQuery">>]]
  /\ UNCHANGED <<playgroundOptions, processFileUploads, handlers, willStartCalls, legacy>>

\* runHttpQuery settles: a response or an HttpQueryError is returned, another error thrown
RunHttpQuerySettles(r, outcome) ==
  /\ inv[r].pc = "executing"
  /\ IF outcome.kind = "error"
     THEN inv' = [inv EXCEPT ![r].pc = "settled", ![r].seen.query = outcome,
                             ![r].resultPromise = Rejected("engineError")]
     ELSE inv' = [inv EXCEPT ![r] =
            Resolve([inv[r] EXCEPT !.seen.query = outcome], BridgeResult(outcome))]
  /\ UNCHANGED <<playgroundOptions, processFileUploads, handlers, willStartCalls, legacy>>

\* a variant of the delivery without the catch(): a rejection is not passed on
CallbackCallsWithoutCatch(resultPromise, context, throws) ==
  IF resultPromise.state = "fulfilled"
  THEN <<CallbackCall("none", resultPromise.value, context)>>
  ELSE <<>>

\* resultPromise.then(result => callback(null, result)).catch(error =>
\* callback(error)): the calls of the callback for a settled resultPromise.
\* The catch() follows the then(), so it also receives what the callback
\* throws when it is called with the result
CallbackCalls(resultPromise, context, throws) ==
  IF resultPromise.state = "fulfilled" /\ throws
  THEN <<CallbackCall("none", resultPromise.value, context),
         CallbackCall("callbackError", NoResponse, context)>>
  ELSE <<CallbackCall(resultPromise.error, resultPromise.value, context)>>

\* the settled promise reaches the host: through the promise the handler
\* returned, or through the callback, which returns or throws
Deliver(r, throws) ==
  /\ inv[r].pc = "settled"
  /\ LET i == inv[r]
     IN IF IsAsync(i.h)
        THEN inv' = [inv EXCEPT ![r].pc = "done", ![r].observed = i.resultPromise]
        ELSE inv' = [inv EXCEPT ![r].pc = "done",
               ![r].callbackCalls = @ \o CallbackCalls(i.resultPromise, i.context, throws)]
  /\ UNCHANGED <<playgroundOptions, processFileUploads, handlers, willStartCalls, legacy>>

---------------------------------------------------------------------------
(* graphqlLambda of packages/apollo-server-lambda/src/lambdaApollo.ts: the   *)
(* callback-style bridge, a handler the host invokes with a callback         *)

LegacyIdle ==
  [pc |-> "idle", event |-> NoEvent,
   context |-> [callbackWaitsForEmptyEventLoop |-> TRUE],
   context0 |-> [callbackWaitsForEmptyEventLoop |-> TRUE],
   callbackCalls |-> <<>>, calls |-> <<>>,
   query |-> [kind |-> "none", v |-> Null],
   seen |-> NoOutcome,            \* how runHttpQuery settled
   threw |-> "none"]              \* the error thrown out of the handler

\* graphqlHandler(event, context, callback) up to the call of runHttpQuery
LegacyInvoke(event, context) ==
  /\ legacy.pc = "idle"
  /\ LET notWaiting == [callbackWaitsForEmptyEventLoop |-> FALSE]
         start == [LegacyIdle EXCEPT !.event = event, !.context = notWaiting,
                                     !.context0 = context]
     IN IF event.httpMethod = "POST" /\ ~Truthy(event.body)
        THEN legacy' = [start EXCEPT !.pc = "done", !.callbackCalls =
               <<CallbackCall("none", Response(500, <<"POST body missing.">>, Undefined),
                              notWaiting)>>]
        ELSE IF IsPostWithBody(event) /\ ~JsonParses(event.body.s)
        THEN legacy' = [start EXCEPT !.pc = "threw", !.threw = "SyntaxError"]
        ELSE legacy' = [start EXCEPT !.pc = "executing", !.calls = <<"runHttpQuery">>,
               !.query = IF IsPostWithBody(event)
                         THEN [kind |-> "parsed", v |-> JsonParse(event.body.s)]
                         ELSE [kind |-> "queryStringParameters", v |-> event.queryStringParameters]]
  /\ UNCHANGED <<playgroundOptions, processFileUploads, handlers, willStartCalls, inv>>

\* runHttpQuery settles: the callback gets the response, or the error
LegacyRunHttpQuerySettles(outcome) ==
  /\ legacy.pc = "executing"
  /\ legacy' = [legacy EXCEPT !.pc = "done", !.seen = outcome, !.callbackCalls = @ \o
       <<IF outcome.kind = "error"
         THEN CallbackCall("engineError", NoResponse, legacy.context)
         ELSE CallbackCall("none", BridgeResult(outcome), legacy.context)>>]
  /\ UNCHANGED <<playgroundOptions, processFileUploads, handlers, willStartCalls, inv>>

\* no handler of createHandler exists: the run is one of the bridge alone
NoHandlers == \A h \in Handlers : ~handlers[h].created

---------------------------------------------------------------------------
(* One handler serving one invocation, over every input *)

\* the runtimes: one with upload support, for every server; one without
\* (processFileUploads is undefined there), for the server without playground
UploadSupport(playground) ==
  IF TruthyOpt(playground) THEN {"function"} ELSE {"function", "undefined"}

Init ==
  /\ playgroundOptions \in PlaygroundConfigs
  /\ processFileUploads \in UploadSupport(playgroundOptions)
  /\ handlers = [h \in Handlers |-> NoHandler]
  /\ willStartCalls = [h \in Handlers |-> 0]
  /\ inv = [r \in Invocations |-> Idle]
  /\ legacy = LegacyIdle

Next ==
  \/ \E cors \in CorsOptions, async \in AsyncOptions :
       legacy.pc = "idle" /\ CreateHandler(1, cors, async)
  \/ \E event \in Events, context \in Contexts : NoHandlers /\ LegacyInvoke(event, context)
  \/ \E outcome \in EngineOutcomes : LegacyRunHttpQuerySettles(outcome)
  \/ \E ok \in BOOLEAN : WillStartSettles(1, ok)
  \/ \E event \in Events, context \in Contexts : Invoke(1, 1, event, context)
  \/ WillStartThen(1)
  \/ WillStartRejected(1)
  \/ \E ok \in BOOLEAN : ProcessFileUploadsSettles(1, ok)
  \/ \E ok \in BOOLEAN : OptionsSettle(1, ok)
  \/ \E outcome \in EngineOutcomes : RunHttpQuerySettles(1, outcome)
  \/ \E throws \in BOOLEAN : Deliver(1, throws)

Spec == Init /\ [][Next]_vars

---------------------------------------------------------------------------
(* Whether an invocation has begun *)

Started(i) == i.pc # "idle"

---------------------------------------------------------------------------
(* Two handlers of one policy, one in each delivery mode, given the same     *)
(* event and context by the host and the same answers by the engine          *)

Other(x) == 3 - x

\* the other handler is of the same policy and the other delivery mode
Paired(h, cors, async) ==
  handlers[Other(h)].created =>
    /\ handlers[Other(h)].cors = cors
    /\ TruthyOpt(handlers[Other(h)].async) # TruthyOpt(async)

\* the engine settles this operation as it did for the other invocation
AsSeen(r, op, settled) == inv[Other(r)].seen[op] \in {"none", settled}

\* the policies the pair of handlers is created with
ModesCorsOptions ==
  { Undef,
    [t |-> "obj", origin |-> OptBool(TRUE), allowedHeaders |-> Undef,
     methods |-> OptStr(<<"GET,POST">>), exposedHeaders |-> Undef,
     credentials |-> OptBool(TRUE), maxAge |-> OptNum(0)],
    [t |-> "obj", origin |-> OptList(<<<<"https://a">>, <<"https://b">>>>),
     allowedHeaders |-> OptStr(<<"x-a">>), methods |-> Undef,
     exposedHeaders |-> OptList(<<<<"x-e">>, <<"x-f">>>>), credentials |-> Undef,
     maxAge |-> Undef] }

\* the events the pair is invoked with: those of a cross-origin request
ModesEvents == {e \in Events : "origin" \in DOMAIN e.headers}

NextModes ==
  \/ \E h \in Handlers, cors \in ModesCorsOptions, async \in AsyncOptions :
       /\ h = 2 => handlers[1].created
       /\ Paired(h, cors, async)
       /\ CreateHandler(h, cors, async)
  \/ \E h \in Handlers, ok \in BOOLEAN :
       /\ handlers[2].created
       /\ h = 2 => handlers[1].promiseWillStart = Settled(ok)
       /\ WillStartSettles(h, ok)
  \/ \E event \in ModesEvents, context \in Contexts :
       /\ handlers[2].created
       /\ Invoke(1, 1, event, context)
  \/ /\ inv[1].pc = "done"
     /\ Invoke(2, 2, inv[1].event0, inv[1].context0)
  \/ \E r \in Invocations : WillStartThen(r)
  \/ \E r \in Invocations : WillStartRejected(r)
  \/ \E r \in Invocations, ok \in BOOLEAN :
       AsSeen(r, "upload", Settled(ok)) /\ ProcessFileUploadsSettles(r, ok)
  \/ \E r \in Invocations, ok \in BOOLEAN :
       AsSeen(r, "options", Settled(ok)) /\ OptionsSettle(r, ok)
  \/ \E r \in Invocations, outcome \in EngineOutcomes :
       /\ inv[Other(r)].seen.query \in {NoOutcome, outcome}
       /\ RunHttpQuerySettles(r, outcome)
  \/ \E r \in Invocations : Deliver(r, FALSE)   \* the host's callback returns

SpecModes == Init /\ [][NextModes]_vars

---------------------------------------------------------------------------
(* One handler serving one invocation, every promise settling in the end:   *)
(* the engine's willStart, processFileUploads, createGraphQLServerOptions    *)
(* and runHttpQuery do settle, and the event loop runs the continuations of  *)
(* a settled promise                                                         *)

NextLive ==
  \/ \E cors \in ModesCorsOptions, async \in AsyncOptions : CreateHandler(1, cors, async)
  \/ \E ok \in BOOLEAN : WillStartSettles(1, ok)
  \/ \E event \in Events, context \in Contexts : Invoke(1, 1, event, context)
  \/ WillStartThen(1)
  \/ WillStartRejected(1)
  \/ \E ok \in BOOLEAN : ProcessFileUploadsSettles(1, ok)
  \/ \E ok \in BOOLEAN : OptionsSettle(1, ok)
  \/ \E outcome \in EngineOutcomes : RunHttpQuerySettles(1, outcome)
  \/ \E throws \in BOOLEAN : Deliver(1, throws)

SpecLive ==
  /\ Init /\ [][NextLive]_vars
  /\ WF_vars(\E ok \in BOOLEAN : WillStartSettles(1, ok))
  /\ WF_vars(WillStartThen(1))
  /\ WF_vars(WillStartRejected(1))
  /\ WF_vars(\E ok \in BOOLEAN : ProcessFileUploadsSettles(1, ok))
  /\ WF_vars(\E ok \in BOOLEAN : OptionsSettle(1, ok))
  /\ WF_vars(\E outcome \in EngineOutcomes : RunHttpQuerySettles(1, outcome))
  /\ WF_vars(\E throws \in BOOLEAN : Deliver(1, throws))

---------------------------------------------------------------------------
(* One handler serving two invocations at a time: the requests share the     *)
(* handler's promiseWillStart and corsHeaders                                *)

\* the events of the two requests: preflights and JSON posts that differ in
\* their Origin and Access-Control-Request-Headers, and an upload
SharedEvents ==
  {e \in OptionsEvents : "Accept" \notin DOMAIN e.headers}
  \cup {e \in PostEvents : /\ e.body = Str(<<"{", "query", "}">>)
                           /\ "Content-Type" \in DOMAIN e.headers
                           /\ ("origin" \in DOMAIN e.headers \/ e.headers["Content-Type"] # Multipart)}

\* what runHttpQuery settles with for the two requests
SharedOutcomes == {o \in EngineOutcomes : o.kind # "HttpQueryError"}

NextShared ==
  \/ \E cors \in ModesCorsOptions, async \in AsyncOptions : CreateHandler(1, cors, async)
  \/ \E ok \in BOOLEAN : WillStartSettles(1, ok)
  \/ \E r \in Invocations, event \in SharedEvents :
       /\ r = 2 => Started(inv[1])
       /\ Invoke(r, 1, event, [callbackWaitsForEmptyEventLoop |-> TRUE])
  \/ \E r \in Invocations : WillStartThen(r)
  \/ \E r \in Invocations : WillStartRejected(r)
  \/ \E r \in Invocations, ok \in BOOLEAN : ProcessFileUploadsSettles(r, ok)
  \/ \E r \in Invocations, ok \in BOOLEAN : OptionsSettle(r, ok)
  \/ \E r \in Invocations, outcome \in SharedOutcomes : RunHttpQuerySettles(r, outcome)
  \/ \E r \in Invocations, throws \in BOOLEAN : Deliver(r, throws)

SpecShared == Init /\ [][NextShared]_vars

---------------------------------------------------------------------------
(* What the host receives from an invocation *)

\* the HttpResponses the host has received: the value of the returned promise,
\* the results passed to the callback
DeliveredResponses(i) ==
  {i.observed.value : x \in {1} \cap (IF i.observed.state = "fulfilled" THEN {1} ELSE {})}
  \cup {i.callbackCalls[k].result : k \in {j \in DOMAIN i.callbackCalls : i.callbackCalls[j].error = "none"}}

\* the HttpResponses produced, delivered already or not
ProducedResponses(i) ==
  DeliveredResponses(i)
  \cup {i.resultPromise.value : x \in {1} \cap (IF i.resultPromise.state = "fulfilled" THEN {1} ELSE {})}

\* the request's headers as the handler reads them
EventHeaders(i) == NewHeaders(i.event0.headers)

HasHeader(response, name, value) ==
  name \in DOMAIN response.headers.h /\ response.headers.h[name] = value

---------------------------------------------------------------------------
(* Claims *)

\* C1: every HttpResponse a handler produces, on every code path, carries
\* each header of the base CORS set computed by createHandler, with the value
\* computed there.
C1_BaseCorsHeadersOnEveryResponse ==
  \A r \in Invocations :
    Started(inv[r]) =>
      \A response \in ProducedResponses(inv[r]) :
        \A name \in DOMAIN handlers[inv[r].h].corsHeaders :
          HasHeader(response, name, handlers[inv[r].h].corsHeaders[name])

\* C1 witness: a JSON parse failure (415) delivered through the callback by a
\* handler whose base CORS set has five headers.
C1_Witness ==
  \E r \in Invocations :
    /\ inv[r].pc = "done"
    /\ Cardinality(DOMAIN handlers[inv[r].h].corsHeaders) = 5
    /\ \E response \in DeliveredResponses(inv[r]) : response.statusCode = 415

\* C2: a request whose method is OPTIONS is answered, in either delivery mode
\* and whatever the configuration, with status 204, an empty body and exactly
\* the request's CORS headers, and performs no engine operation.
C2_PreflightShortCircuit ==
  \A r \in Invocations :
    (Started(inv[r]) /\ inv[r].event0.httpMethod = "OPTIONS") =>
      LET i == inv[r]
          expected ==
            Response(204, <<>>,
                     Defined(HeadersObject(RequestCorsHeaders(handlers[i.h].cors,
                                                              handlers[i.h].corsHeaders,
                                                              EventHeaders(i)))))
      IN /\ i.calls = <<>>
         /\ i.seen = NoneSeen
         /\ i.rendered = Null
         /\ ProducedResponses(i) = {expected}
         /\ IF IsAsync(i.h)
            THEN i.resultPromise = Fulfilled(expected) /\ i.callbackCalls = <<>>
            ELSE i.pc = "done" /\ Len(i.callbackCalls) = 1

\* C2 witness: a preflight with an Accept: text/html header, answered by a
\* promise-mode handler of a server that has the playground configured.
C2_Witness ==
  \E r \in Invocations :
    /\ inv[r].pc = "done"
    /\ inv[r].event0.httpMethod = "OPTIONS"
    /\ IsAsync(inv[r].h)
    /\ TruthyOpt(playgroundOptions)
    /\ "Accept" \in DOMAIN inv[r].event0.headers
    /\ "access-control-allow-origin" \in DOMAIN inv[r].observed.value.headers.h

\* the value of the computed access-control-allow-origin header, or null
AllowOrigin(i) ==
  IF "access-control-allow-origin" \in DOMAIN i.requestCorsHeadersObject
  THEN Str(i.requestCorsHeadersObject["access-control-allow-origin"])
  ELSE Null

C4_ReflectsRequestHeaders ==
  \A r \in Invocations :
    LET i == inv[r]
        cors == handlers[i.h].cors
        V == Get(EventHeaders(i), "access-control-request-headers")
    IN (Started(i) /\ TruthyOpt(cors) /\ ~TruthyOpt(cors.allowedHeaders) /\ V.some) =>
         /\ "access-control-allow-headers" \in DOMAIN i.requestCorsHeadersObject
         /\ i.requestCorsHeadersObject["access-control-allow-headers"] = V.s

\* what the host receives in the end: a response or an error, whichever the
\* mechanism
Outcome(i) ==
  IF IsAsync(i.h)
  THEN [state |-> i.observed.state, value |-> i.observed.value, error |-> i.observed.error]
  ELSE IF i.callbackCalls = <<>>
  THEN [state |-> "none", value |-> NoResponse, error |-> "none"]
  ELSE LET call == i.callbackCalls[1]
       IN [state |-> IF call.error = "none" THEN "fulfilled" ELSE "rejected",
           value |-> call.result, error |-> call.error]

\* C5: for the same event and the same engine behaviour, the promise of a
\* promise-mode handler settles as the callback of a callback-mode handler is
\* called: with an HttpResponse of the same status, body and headers, or with
\* the same error.
C5_ModesAgree ==
  \A r1, r2 \in Invocations :
    LET a == inv[r1]
        b == inv[r2]
    IN (/\ a.pc = "done" /\ b.pc = "done"
        /\ IsAsync(a.h) /\ ~IsAsync(b.h)
        /\ handlers[a.h].cors = handlers[b.h].cors
        /\ a.event0 = b.event0 /\ a.context0 = b.context0
        /\ a.seen = b.seen) =>
         /\ Outcome(a) = Outcome(b)
         /\ Outcome(a).state \in {"fulfilled", "rejected"}
         /\ Outcome(a).state = "fulfilled" <=> Outcome(a).value # NoResponse
         /\ Len(b.callbackCalls) = 1

\* C5 witness: both modes have delivered the engine's structured query error
\* for the same event.
C5_Witness ==
  /\ inv[1].pc = "done" /\ inv[2].pc = "done"
  /\ IsAsync(inv[1].h) # IsAsync(inv[2].h)
  /\ inv[1].seen = inv[2].seen
  /\ inv[1].seen.query.kind = "HttpQueryError"
  /\ Outcome(inv[1]).state = "fulfilled"
  /\ Outcome(inv[1]) = Outcome(inv[2])

EngineOperations == {"processFileUploads", "createGraphQLServerOptions", "runHttpQuery"}

Performed(i, op) == \E k \in DOMAIN i.calls : i.calls[k] = op

\* the request is answered by the OPTIONS branch or by the playground branch
ShortCircuits(i) == i.event0.httpMethod = "OPTIONS" \/ IsPlaygroundRequest(i.event0)

\* C6: on the primary path the upload processing, createGraphQLServerOptions
\* and runHttpQuery are started only once the startup begun by createHandler
\* is fulfilled; while it is pending the request is held, and when it is
\* rejected no engine operation is performed and no response is produced.
\* Preflight and playground responses are produced without waiting.
C6_StartupBeforeEngine ==
  \A r \in Invocations :
    LET i == inv[r]
        promiseWillStart == handlers[i.h].promiseWillStart
    IN Started(i) =>
         IF ShortCircuits(i)
         THEN i.calls = <<>> /\ i.seen = NoneSeen /\ ProducedResponses(i) # {}
         ELSE /\ i.calls # <<>> /\ i.calls[1] = "promiseWillStart.then"
              /\ (\E op \in EngineOperations : Performed(i, op)) => promiseWillStart = "fulfilled"
              /\ promiseWillStart = "pending" =>
                   i.pc = "awaitStart" /\ ProducedResponses(i) = {}
              /\ promiseWillStart = "rejected" =>
                   /\ i.pc \in {"awaitStart", "settled", "done"}
                   /\ ProducedResponses(i) = {}
                   /\ i.pc # "awaitStart" => i.resultPromise = Rejected("willStartError")

\* C6 witness: after the startup, an upload was processed, the options built
\* and the query run, and the response delivered.
C6_Witness ==
  \E r \in Invocations :
    /\ inv[r].pc = "done"
    /\ inv[r].calls = <<"promiseWillStart.then", "processFileUploads",
                        "createGraphQLServerOptions", "runHttpQuery">>
    /\ handlers[inv[r].h].promiseWillStart = "fulfilled"
    /\ DeliveredResponses(inv[r]) # {}

\* the response went through the execution bridge
ExecutionBranch(i) == i.bridgeResult # NoResponse /\ i.resultPromise.state = "fulfilled"

\* C7 (as claimed): when the engine's headers and the CORS headers define the
\* same key, the response of the execution branch carries the engine's value.
C7_EngineValueOnExecution ==
  \A r \in Invocations :
    LET i == inv[r]
    IN ExecutionBranch(i) =>
         \A k \in DOMAIN i.bridgeResult.headers.h \cap DOMAIN i.requestCorsHeadersObject :
           HasHeader(i.resultPromise.value, k, i.bridgeResult.headers.h[k])

\* C7 (amended): on every branch the response carries the CORS value of every
\* CORS key, also of a key the engine's headers define too; a key of the
\* engine's headers (of the page's Content-Type) that is no CORS key keeps its
\* value; and the response has no other header.
C7_CorsValueOnEveryBranch ==
  \A r \in Invocations :
    LET i == inv[r]
        other == IF ExecutionBranch(i) THEN i.bridgeResult.headers.h
                 ELSE IF i.event0.httpMethod = "OPTIONS" THEN EmptyHeaders
                 ELSE One("Content-Type", TextHtml)
    IN Started(i) =>
         \A response \in ProducedResponses(i) :
           /\ response.headers.def
           /\ DOMAIN response.headers.h = DOMAIN other \cup DOMAIN i.requestCorsHeadersObject
           /\ \A k \in DOMAIN i.requestCorsHeadersObject :
                HasHeader(response, k, i.requestCorsHeadersObject[k])
           /\ \A k \in DOMAIN other \ DOMAIN i.requestCorsHeadersObject :
                HasHeader(response, k, other[k])

\* C7 witness: the engine and the CORS policy give different values to
\* access-control-allow-origin, and the response has been delivered.
C7_Witness ==
  \E r \in Invocations :
    /\ inv[r].pc = "done"
    /\ ExecutionBranch(inv[r])
    /\ "access-control-allow-origin" \in DOMAIN inv[r].bridgeResult.headers.h
    /\ "access-control-allow-origin" \in DOMAIN inv[r].requestCorsHeadersObject
    /\ inv[r].bridgeResult.headers.h["access-control-allow-origin"]
         # inv[r].requestCorsHeadersObject["access-control-allow-origin"]
    /\ "Content-Type" \in DOMAIN inv[r].resultPromise.value.headers.h

\* the path of the request: event.path, else requestContext.path, else '/'
RequestPath(event) == OrElse(OrElse(event.path, event.requestContextPath), Str(<<"/">>))

\* the response is the page: 200, text/html, the renderer's output for endpoint
IsPage(response, endpoint) ==
  /\ response.statusCode = 200
  /\ HasHeader(response, "Content-Type", TextHtml)
  /\ response.body = RenderPlaygroundPage(Spread(One("endpoint", endpoint), playgroundOptions.o))

\* C8 (as claimed): a GET whose Accept header, under any spelling of the
\* name, contains text/html is answered, when the playground is configured,
\* with the page rendered for the request's path, without any engine operation.
C8_PageForRequestPath ==
  \A r \in Invocations :
    LET i == inv[r]
        accept == Get(EventHeaders(i), "accept")
    IN (/\ Started(i) /\ i.event0.httpMethod = "GET" /\ TruthyOpt(playgroundOptions)
        /\ accept.some /\ Includes(accept.s, TextHtml)) =>
         /\ i.calls = <<>> /\ i.seen = NoneSeen
         /\ i.rendered = RequestPath(i.event0)
         /\ ProducedResponses(i) # {}
         /\ \A response \in ProducedResponses(i) : IsPage(response, RequestPath(i.event0).s)

\* C8 (amended): a GET whose headers['Accept'], or headers['accept'] when that
\* one is missing or empty, contains text/html is answered, when the playground
\* is configured, with status 200, Content-Type text/html and the renderer's
\* output as body, without any engine operation; the endpoint given to the
\* renderer is the endpoint of the playground options when they have one, and
\* the request's path otherwise.
C8_PageForConfiguredEndpoint ==
  \A r \in Invocations :
    LET i == inv[r]
        accept == IF "Accept" \in DOMAIN i.event0.headers /\ i.event0.headers["Accept"] # <<>>
                  THEN Str(i.event0.headers["Accept"])
                  ELSE IF "accept" \in DOMAIN i.event0.headers
                  THEN Str(i.event0.headers["accept"])
                  ELSE Null
        endpoint == IF "endpoint" \in DOMAIN playgroundOptions.o
                    THEN Str(playgroundOptions.o["endpoint"])
                    ELSE RequestPath(i.event0)
    IN (/\ Started(i) /\ i.event0.httpMethod = "GET" /\ TruthyOpt(playgroundOptions)
        /\ accept.some /\ Includes(accept.s, TextHtml)) =>
         /\ i.calls = <<>> /\ i.seen = NoneSeen
         /\ i.rendered = endpoint
         /\ ProducedResponses(i) # {}
         /\ \A response \in ProducedResponses(i) : IsPage(response, endpoint.s)

\* C8 witness: the page was delivered for a request to /graphql by a server
\* whose playground options name the endpoint /custom.
C8_Witness ==
  \E r \in Invocations :
    /\ inv[r].pc = "done"
    /\ inv[r].event0.httpMethod = "GET"
    /\ inv[r].event0.path = Str(<<"/graphql">>)
    /\ inv[r].rendered = Str(<<"/custom">>)
    /\ \E response \in DeliveredResponses(inv[r]) : IsPage(response, <<"/custom">>)

\* C9 (as claimed): in callback mode, on every code path, the context's
\* callbackWaitsForEmptyEventLoop is false when the callback is called.
C9_NotWaitingAtCallback ==
  \A r \in Invocations :
    (Started(inv[r]) /\ ~IsAsync(inv[r].h)) =>
      \A k \in DOMAIN inv[r].callbackCalls :
        inv[r].callbackCalls[k].context.callbackWaitsForEmptyEventLoop = FALSE

\* C10: for a POST event whose body is absent or empty, whatever its
\* Content-Type, the bridge returns exactly {statusCode: 500, body: 'POST body
\* missing.'} as a normal response, and runHttpQuery is not called; the
\* callback-style bridge passes the same response to its callback.
C10_PostBodyMissing ==
  LET missing == Response(500, <<"POST body missing.">>, Undefined)
  IN /\ \A r \in Invocations :
          LET i == inv[r]
          IN (/\ i.seen.options = "fulfilled"
              /\ i.event.httpMethod = "POST" /\ ~Truthy(i.event.body)) =>
               /\ i.bridgeResult = missing
               /\ ~Performed(i, "runHttpQuery") /\ i.seen.query = NoOutcome
               /\ i.resultPromise.state = "fulfilled"
               /\ i.resultPromise.value.statusCode = 500
               /\ i.resultPromise.value.body = <<"POST body missing.">>
     /\ (/\ legacy.pc # "idle"
         /\ legacy.event.httpMethod = "POST" /\ ~Truthy(legacy.event.body)) =>
          /\ legacy.calls = <<>> /\ legacy.threw = "none"
          /\ Len(legacy.callbackCalls) = 1
          /\ legacy.callbackCalls[1].error = "none"
          /\ legacy.callbackCalls[1].result = missing

\* C10 witness: a POST with a JSON content type and an empty body got the 500
\* response delivered.
C10_Witness ==
  \E r \in Invocations :
    /\ inv[r].pc = "done"
    /\ inv[r].event.httpMethod = "POST"
    /\ inv[r].event.body = Str(<<>>)
    /\ "Content-Type" \in DOMAIN inv[r].event.headers
    /\ inv[r].bridgeResult # NoResponse
    /\ inv[r].bridgeResult.statusCode = 500
    /\ \E response \in DeliveredResponses(inv[r]) : response.body = <<"POST body missing.">>

\* the event is a POST with a JSON content type and a non-empty body that is
\* not valid JSON
IsUnparsableJsonPost(event) ==
  /\ event.httpMethod = "POST"
  /\ Truthy(event.body)
  /\ LET contentType == Get(NewHeaders(event.headers), "content-type")
     IN contentType.some /\ StartsWith(contentType.s, AppJson)
  /\ ~JsonParses(event.body.s)

\* C11 (as claimed): for a POST event with a JSON content type and a non-empty
\* body that is not valid JSON, the bridge returns exactly {statusCode: 415,
\* body: 'Error parsing JSON POST body'} as a normal response, throws nothing
\* and does not call runHttpQuery; so the bridge createHandler calls, and so
\* the callback-style bridge.
C11_JsonParseFailure ==
  LET unparsable == Response(415, <<"Error parsing JSON POST body">>, Undefined)
  IN /\ \A r \in Invocations :
          LET i == inv[r]
          IN (i.seen.options = "fulfilled" /\ IsUnparsableJsonPost(i.event)) =>
               /\ i.bridgeResult = unparsable
               /\ ~Performed(i, "runHttpQuery") /\ i.seen.query = NoOutcome
               /\ i.resultPromise.state = "fulfilled"
     /\ (legacy.pc # "idle" /\ IsUnparsableJsonPost(legacy.event)) =>
          /\ legacy.calls = <<>> /\ legacy.threw = "none"
          /\ Len(legacy.callbackCalls) = 1
          /\ legacy.callbackCalls[1].error = "none"
          /\ legacy.callbackCalls[1].result = unparsable

\* C12: a fulfilled runHttpQuery yields status 200 with the engine's body and
\* headers; an HttpQueryError yields the response of its statusCode, message
\* and headers; any other error yields no response and reaches the host as
\* the error: the rejection of the returned promise, the error argument of
\* the callback. The callback-style bridge maps the three in the same way.
C12_OutcomeMapping ==
  /\ \A r \in Invocations :
       LET i == inv[r]
           o == i.seen.query
       IN o # NoOutcome =>
            CASE o.kind = "response" ->
                   /\ i.bridgeResult = Response(200, o.body, o.headers)
                   /\ i.resultPromise.state = "fulfilled"
                   /\ i.resultPromise.value.statusCode = 200
                   /\ i.resultPromise.value.body = o.body
              [] o.kind = "HttpQueryError" ->
                   /\ i.bridgeResult = Response(o.statusCode, o.body, o.headers)
                   /\ i.resultPromise.state = "fulfilled"
                   /\ i.resultPromise.value.statusCode = o.statusCode
                   /\ i.resultPromise.value.body = o.body
              [] o.kind = "error" ->
                   /\ i.bridgeResult = NoResponse
                   /\ ProducedResponses(i) = {}
                   /\ i.resultPromise = Rejected("engineError")
                   /\ i.pc = "done" =>
                        IF IsAsync(i.h)
                        THEN i.observed = Rejected("engineError")
                        ELSE /\ i.callbackCalls # <<>>
                             /\ i.callbackCalls[1].error = "engineError"
                             /\ i.callbackCalls[1].result = NoResponse
  /\ legacy.seen # NoOutcome =>
       /\ Len(legacy.callbackCalls) = 1
       /\ LET o == legacy.seen
              call == legacy.callbackCalls[1]
          IN CASE o.kind = "response" ->
                    call.error = "none" /\ call.result = Response(200, o.body, o.headers)
               [] o.kind = "HttpQueryError" ->
                    call.error = "none" /\ call.result = Response(o.statusCode, o.body, o.headers)
               [] o.kind = "error" ->
                    call.error = "engineError" /\ call.result = NoResponse

\* C12 witness: an HttpQueryError with headers of its own has reached the
\* host as a 405 response through the callback.
C12_Witness ==
  \E r \in Invocations :
    /\ inv[r].pc = "done"
    /\ ~IsAsync(inv[r].h)
    /\ inv[r].seen.query.kind = "HttpQueryError"
    /\ inv[r].seen.query.statusCode = 405
    /\ \E response \in DeliveredResponses(inv[r]) :
         response.statusCode = 405 /\ HasHeader(response, "Allow", <<"GET, POST">>)

\* C13 (as claimed): in callback mode, whatever the outcome of startup, upload
\* processing and execution, the callback is called at most once for an
\* invocation; so for the callback-style bridge.
C13_CallbackAtMostOnce ==
  /\ \A r \in Invocations :
       (Started(inv[r]) /\ ~IsAsync(inv[r].h)) => Len(inv[r].callbackCalls) <= 1
  /\ Len(legacy.callbackCalls) <= 1

\* C14: in callback mode, when startup, upload processing, the building of the
\* options and the execution each settle in the end, every invocation leads to
\* a call of the callback, with an HttpResponse or with an error.
C14_CallbackEventually ==
  \A r \in Invocations :
    (Started(inv[r]) /\ ~IsAsync(inv[r].h)) ~>
      (/\ inv[r].callbackCalls # <<>>
       /\ LET call == inv[r].callbackCalls[1]
          IN (call.error = "none") <=> (call.result # NoResponse))

\* C14 witness: the startup was rejected while the request was waiting for it,
\* and the callback was called with its error.
C14_Witness ==
  \E r \in Invocations :
    /\ inv[r].pc = "done"
    /\ ~IsAsync(inv[r].h)
    /\ inv[r].seen.willStart = "rejected"
    /\ Len(inv[r].callbackCalls) = 1
    /\ inv[r].callbackCalls[1].error = "willStartError"

\* C15: for a handler createHandler returned, however many requests it
\* serves and however they interleave, willStart() has been called exactly
\* once, by createHandler; every request of the primary path, one that came
\* before the startup settled too, goes on only by the settlement of that one
\* promise.
C15_WillStartOnce ==
  /\ \A h \in Handlers : willStartCalls[h] = IF handlers[h].created THEN 1 ELSE 0
  /\ \A r \in Invocations :
       LET i == inv[r]
       IN (Started(i) /\ ~ShortCircuits(i)) =>
            /\ i.calls[1] = "promiseWillStart.then"
            /\ i.pc = "awaitStart" <=> i.seen.willStart = "none"
            /\ i.seen.willStart # "none" => i.seen.willStart = handlers[i.h].promiseWillStart
            /\ handlers[i.h].promiseWillStart = "pending" => i.pc = "awaitStart"

\* C15 witness: two requests of the primary path have come while the startup
\* is pending; both wait, and willStart() has been called once.
C15_Witness ==
  /\ inv[1].h = 1 /\ inv[2].h = 1
  /\ handlers[1].promiseWillStart = "pending"
  /\ inv[1].pc = "awaitStart" /\ inv[2].pc = "awaitStart"
  /\ inv[1].event0 # inv[2].event0
  /\ willStartCalls[1] = 1

\* the CORS headers of a request as the policy and the request's own headers
\* give them
OwnCorsHeaders(i) ==
  HeadersObject(RequestCorsHeaders(handlers[i.h].cors, BaseCorsHeaders(handlers[i.h].cors),
                                   EventHeaders(i)))

\* C19: whatever requests a handler serves, and however they interleave, its
\* base CORS headers stay as createHandler computed them from the policy; the
\* CORS headers of a response are those the policy and the request's own
\* headers give; and no response carries, in any header, the Origin or
\* Access-Control-Request-Headers value of the other request.
C19_NoLeakBetweenRequests ==
  /\ \A h \in Handlers :
       handlers[h].created => handlers[h].corsHeaders = BaseCorsHeaders(handlers[h].cors)
  /\ \A r \in Invocations :
       LET i == inv[r]
       IN Started(i) =>
            /\ i.requestCorsHeadersObject = OwnCorsHeaders(i)
            /\ \A response \in ProducedResponses(i) :
                 \A k \in DOMAIN OwnCorsHeaders(i) : HasHeader(response, k, OwnCorsHeaders(i)[k])
  /\ \A r1, r2 \in Invocations :
       (r1 # r2 /\ Started(inv[r1]) /\ Started(inv[r2])) =>
         \A n \in {"origin", "access-control-request-headers"} :
           LET other == Get(EventHeaders(inv[r1]), n)
               own == Get(EventHeaders(inv[r2]), n)
           IN (other.some /\ other # own) =>
                \A response \in ProducedResponses(inv[r2]) :
                  \A k \in DOMAIN response.headers.h : response.headers.h[k] # other.s

\* C19 witness: a handler that reflects the Origin has answered a request
\* from https://a with that origin, and another request, without an Origin,
\* without any access-control-allow-origin.
C19_Witness ==
  \E r1, r2 \in Invocations :
    /\ r1 # r2
    /\ inv[r1].pc = "done" /\ inv[r2].pc = "done"
    /\ TruthyOpt(handlers[1].cors)
    /\ handlers[1].cors.origin = OptBool(TRUE)
    /\ Get(EventHeaders(inv[r1]), "origin") = Str(<<"https://a">>)
    /\ Get(EventHeaders(inv[r2]), "origin") = Null
    /\ \E response \in DeliveredResponses(inv[r1]) :
         HasHeader(response, "access-control-allow-origin", <<"https://a">>)
    /\ \E response \in DeliveredResponses(inv[r2]) :
         "access-control-allow-origin" \notin DOMAIN response.headers.h

\* C16: when the upload processing of a request fails, the error formatted by
\* formatApolloErrors is thrown: createGraphQLServerOptions and runHttpQuery
\* are not called for the request, no HttpResponse is produced, and the host
\* gets the formatted error, as the rejection of the returned promise or as
\* the error argument of the one call of the callback.
C16_UploadFailure ==
  \A r \in Invocations :
    LET i == inv[r]
        formatted == "formatApolloErrors([uploadError])"
    IN i.seen.upload = "rejected" =>
         /\ i.calls = <<"promiseWillStart.then", "processFileUploads">>
         /\ i.seen.options = "none" /\ i.seen.query = NoOutcome
         /\ i.bridgeResult = NoResponse
         /\ ProducedResponses(i) = {}
         /\ i.resultPromise = Rejected(formatted)
         /\ i.pc \in {"settled", "done"}
         /\ i.pc = "done" =>
              IF IsAsync(i.h)
              THEN i.observed = Rejected(formatted) /\ i.callbackCalls = <<>>
              ELSE /\ Len(i.callbackCalls) = 1
                   /\ i.callbackCalls[1].error = formatted
                   /\ i.callbackCalls[1].result = NoResponse

\* C16 witness: the upload of a multipart POST failed and the callback was
\* called with the formatted error.
C16_Witness ==
  \E r \in Invocations :
    /\ inv[r].pc = "done"
    /\ ~IsAsync(inv[r].h)
    /\ inv[r].seen.upload = "rejected"
    /\ inv[r].event0.httpMethod = "POST"
    /\ inv[r].callbackCalls # <<>>
    /\ inv[r].callbackCalls[1].error = "formatApolloErrors([uploadError])"

\* the request has a body, null excepted, and a Content-Type, under any
\* spelling of the name, that starts with multipart/form-data
IsMultipartWithBody(i) ==
  /\ i.event0.body.some
  /\ LET contentType == Get(EventHeaders(i), "content-type")
     IN contentType.some /\ StartsWith(contentType.s, <<"multipart/form-data">>)

\* C17 (as claimed): the body the bridge is called with is the output of the
\* upload processing when the request has a non-null body and a multipart
\* Content-Type, and the request's body otherwise; the upload processing is
\* started in the first case only.
C17_BodyAtBridge ==
  \A r \in Invocations :
    LET i == inv[r]
    IN /\ Performed(i, "processFileUploads") => IsMultipartWithBody(i)
       /\ Performed(i, "createGraphQLServerOptions") =>
            i.event.body = IF IsMultipartWithBody(i) THEN ProcessedBody(i.event0.body)
                           ELSE i.event0.body

\* C17 (amended): where processFileUploads is a function, the body the bridge
\* is called with is the output of the upload processing when the request has
\* a non-null body and a multipart Content-Type, and the upload processing is
\* started in that case only; in every other case, and where
\* processFileUploads is no function, the bridge is called with the request's
\* body and no upload processing is started.
C17_BodyAtBridgeWithUploadSupport ==
  \A r \in Invocations :
    LET i == inv[r]
        upload == processFileUploads = "function" /\ IsMultipartWithBody(i)
    IN /\ Performed(i, "processFileUploads") => upload
       /\ (Started(i) /\ ~ShortCircuits(i) /\ i.seen.willStart = "fulfilled" /\ upload)
            => Performed(i, "processFileUploads")
       /\ Performed(i, "createGraphQLServerOptions") =>
            /\ i.event.body = IF upload THEN ProcessedBody(i.event0.body) ELSE i.event0.body
            /\ upload => i.seen.upload = "fulfilled"

\* C17 witness: a POST whose Content-Type header, spelled with capitals, is
\* multipart has reached runHttpQuery with the processed body as its query.
C17_Witness ==
  \E r \in Invocations :
    /\ inv[r].pc = "done"
    /\ "Content-Type" \in DOMAIN inv[r].event0.headers
    /\ inv[r].event0.body = Str(<<"{", "query", "}">>)
    /\ inv[r].seen.upload = "fulfilled"
    /\ inv[r].event.body = ProcessedBody(inv[r].event0.body)
    /\ inv[r].query = [kind |-> "body", v |-> ProcessedBody(inv[r].event0.body)]

\* C18 (as claimed): on every code path the event's httpMethod, path,
\* requestContext.path, headers, queryStringParameters and isBase64Encoded
\* stay as the host gave them; only the body is replaced.
C18_EventFieldsUnchanged ==
  \A r \in Invocations :
    LET i == inv[r]
    IN Started(i) =>
         /\ i.event.httpMethod = i.event0.httpMethod
         /\ i.event.path = i.event0.path
         /\ i.event.requestContextPath = i.event0.requestContextPath
         /\ i.event.headers = i.event0.headers
         /\ i.event.queryStringParameters = i.event0.queryStringParameters
         /\ i.event.isBase64Encoded = i.event0.isBase64Encoded

\* C20: for a handler created with async: true, the context's
\* callbackWaitsForEmptyEventLoop is, at every point of an invocation and
\* after the returned promise has settled, what it was when the host invoked
\* the handler: on the OPTIONS branch, on the playground branch and on the
\* primary path, the call of the bridge included.
C20_AsyncLeavesContext ==
  \A r \in Invocations :
    LET i == inv[r]
    IN (Started(i) /\ handlers[i.h].async = OptBool(TRUE)) =>
         /\ i.context = i.context0
         /\ i.callbackCalls = <<>>
         /\ i.returned = "promise"

\* C20 witness: a promise-mode handler was invoked with the flag set, the
\* bridge ran the query, the promise was fulfilled with the response, and the
\* flag is still set.
C20_Witness ==
  \E r \in Invocations :
    /\ inv[r].pc = "done"
    /\ handlers[inv[r].h].async = OptBool(TRUE)
    /\ inv[r].context0.callbackWaitsForEmptyEventLoop
    /\ inv[r].context.callbackWaitsForEmptyEventLoop
    /\ Performed(inv[r], "runHttpQuery")
    /\ inv[r].observed.state = "fulfilled"

====
